---- MODULE Spec2Model ----
(***************************************************************************)
(* A model of cpdep (src/main.rs): main creates the target directories,    *)
(* copies the executable, resolves its dependency closure, filters the     *)
(* closure through the ignore patterns and copies every library it finds.  *)
(*                                                                         *)
(* Three specifications share the actions:                                 *)
(*   Spec         a whole run of main;                                     *)
(*   SpecResolve  resolve_dependencies on every dependency graph of the    *)
(*                bounded family;                                          *)
(*   SpecFind     find_library_path as a pure function of its inputs.      *)
(***************************************************************************)
EXTENDS Integers, Sequences, FiniteSets, TLC

(***************************************************************************)
(* Bounds.                                                                 *)
(***************************************************************************)
\* longest DT_NEEDED list of the root executable that is enumerated
MaxDeps == 2
\* longest user-supplied search path vector given to find_library_path
MaxUserPaths == 2
\* most entries of LD_LIBRARY_PATH
MaxLdPaths == 2

(***************************************************************************)
(* Names.  A file or library name is a string; Text gives its characters,  *)
(* which is what the regular expressions of the ignore list look at.       *)
(***************************************************************************)
Exe == "app"
LibA == "libA.so"
LibB == "libB.so"
LibC == "libC.so"
Loader == "ld-linux-x86-64.so.2"
Vdso == "linux-vdso.so.1"
Libc6 == "libc.so.6"
LibMyLibc == "libmylibc.so.1"

\* libraries whose own DT_NEEDED lists are enumerated
GraphLibs == {LibA, LibB, LibC}
\* every library name the model knows
Libs == GraphLibs \cup {Loader, Vdso, Libc6, LibMyLibc}
\* every name that can appear in a DT_NEEDED list (a list may name the root)
Names == Libs \cup {Exe}

Text(name) ==
    CASE name = Exe -> <<"a","p","p">>
      [] name = LibA -> <<"l","i","b","A",".","s","o">>
      [] name = LibB -> <<"l","i","b","B",".","s","o">>
      [] name = LibC -> <<"l","i","b","C",".","s","o">>
      [] name = Loader -> <<"l","d","-","l","i","n","u","x","-","x","8","6","-","6","4",".","s","o",".","2">>
      [] name = Vdso -> <<"l","i","n","u","x","-","v","d","s","o",".","s","o",".","1">>
      [] name = Libc6 -> <<"l","i","b","c",".","s","o",".","6">>
      [] name = LibMyLibc -> <<"l","i","b","m","y","l","i","b","c",".","s","o",".","1">>

(***************************************************************************)
(* Regex::is_match for the patterns of the ignore list: literal            *)
(* characters, "." (any character) and a postfix "*"; the match is         *)
(* unanchored, so it may start at any offset of the text.                  *)
(***************************************************************************)
AtomMatches(atom, ch) == atom = "." \/ atom = ch

RECURSIVE MatchHere(_, _, _, _)
MatchHere(pat, pi, s, si) ==
    IF pi > Len(pat) THEN TRUE
    ELSE IF pi < Len(pat) /\ pat[pi + 1] = "*"
         THEN \/ MatchHere(pat, pi + 2, s, si)
              \/ /\ si <= Len(s)
                 /\ AtomMatches(pat[pi], s[si])
                 /\ MatchHere(pat, pi, s, si + 1)
         ELSE /\ si <= Len(s)
              /\ AtomMatches(pat[pi], s[si])
              /\ MatchHere(pat, pi + 1, s, si + 1)

is_match(pat, s) == \E start \in 1..(Len(s) + 1) : MatchHere(pat, 1, s, start)

\* r"ld-linux-x86-64.so.*", r"linux-vdso.so.*", r"libc.so.*"
ignore_patterns ==
    << <<"l","d","-","l","i","n","u","x","-","x","8","6","-","6","4",".","s","o",".","*">>,
       <<"l","i","n","u","x","-","v","d","s","o",".","s","o",".","*">>,
       <<"l","i","b","c",".","s","o",".","*">> >>

\* the closure of all_dependencies.retain: TRUE for an entry that is kept
retain(dep) ==
    ~ \E k \in 1..Len(ignore_patterns) : is_match(ignore_patterns[k], Text(dep))

(***************************************************************************)
(* Directories.                                                            *)
(***************************************************************************)
system_paths == <<"/lib", "/usr/lib", "/lib64", "/usr/lib64", "/usr/local/lib">>
UserDir == "/opt/user"
LdDir == "/opt/ld"
\* an empty entry of LD_LIBRARY_PATH: Path::new("").join(name) is name itself
Cwd == ""
Dirs == {"/lib", "/usr/lib", "/lib64", "/usr/lib64", "/usr/local/lib", UserDir, LdDir, Cwd}

Range(seq) == {seq[k] : k \in 1..Len(seq)}
SeqsUpTo(S, n) == UNION {[1..m -> S] : m \in 0..n}

None == "<none>"
NotCalled == "<not called>"
\* no set yet: a call that has not returned Ok
NoSet == {"<no set>"}
Unset == <<"<unset>">>

VARIABLES
    pc,               \* position of main
    exit_status,      \* -1 while the process runs, then its exit status
    failure,          \* what ended the run early, "none" otherwise
    search,           \* args.search: None or the directory given with --search
    targetKind,       \* what is at target_dir: "absent", "dir" or "file"
    libsKind,         \* what is at target_dir/libs
    envShWritten,     \* target_dir/env.sh has been written
    exeCopied,        \* the executable has been copied into target_dir
    copyStarted,      \* some fs::copy has been started
    copiedLibs,       \* libraries copied into target_dir/libs
    reported,         \* libraries printed as "not found"
    remaining,        \* entries copy_libraries has still to iterate over
    handed,           \* number of calls of copy_libraries
    deps,             \* DT_NEEDED list of every file
    processed,        \* the HashSet of resolve_dependencies
    stack,            \* call stack of resolve_dependencies_recursively
    reads,            \* paths given to fs::read, in order
    raw,              \* value returned by the outermost recursive call
    filterRuns,       \* number of times the ignore filter has run
    all_dependencies, \* value returned by resolve_dependencies
    libDirs,          \* the directories in which a file of each name exists
    user_search_path, \* the user_path vector given to find_library_path
    ld_path,          \* LD_LIBRARY_PATH split at ':', or Unset
    found,            \* result of find_library_path in SpecFind
    probes            \* the directories that call probed, in order

vars == <<pc, exit_status, failure, search, targetKind, libsKind, envShWritten,
          exeCopied, copyStarted, copiedLibs, reported, remaining,
          handed, deps, processed, stack, reads, raw, filterRuns,
          all_dependencies, libDirs, user_search_path, ld_path, found, probes>>

envVars == <<search, deps, libDirs, ld_path>>
fsVars == <<targetKind, libsKind, envShWritten, exeCopied, copyStarted, copiedLibs>>
resolveVars == <<processed, stack, reads, raw, filterRuns, all_dependencies>>
copyVars == <<reported, remaining, handed>>

(***************************************************************************)
(* find_library_path: the built-in directories, then the user's, then      *)
(* LD_LIBRARY_PATH; the first directory holding a file of that name wins.  *)
(***************************************************************************)
\* the directories in the order the two loops probe them
probe_order(user_path, ld) ==
    (system_paths \o user_path) \o (IF ld = Unset THEN <<>> ELSE ld)

RECURSIVE first_hit(_, _, _)
first_hit(order, k, dirsOfLib) ==
    IF k > Len(order) THEN None
    ELSE IF order[k] \in dirsOfLib THEN order[k]
    ELSE first_hit(order, k + 1, dirsOfLib)

\* the directories whose lib_path.exists() is evaluated: the loops stop at
\* the first directory holding the file
probed(order, dirsOfLib) ==
    LET hits == {k \in 1..Len(order) : order[k] \in dirsOfLib}
    IN  IF hits = {} THEN order
        ELSE SubSeq(order, 1, CHOOSE k \in hits : \A j \in hits : k <= j)

\* the directory of the returned path, or None
find_library_path(lib_name, user_path) ==
    first_hit(probe_order(user_path, ld_path), 1, libDirs[lib_name])

(***************************************************************************)
(* The inputs of a run.                                                    *)
(***************************************************************************)
LibOrder == <<LibA, LibB, LibC>>
Ordered(S) == SelectSeq(LibOrder, LAMBDA x : x \in S)

\* SpecResolve: the root's list r is any list (order and repetitions matter
\* to the loop) over every name; each library of GraphLibs needs the subset
\* f[lib] of GraphLibs, listed without repetition.
ResolveGraph(r, f) ==
    [n \in Names |-> IF n = Exe THEN r
                     ELSE IF n \in GraphLibs THEN Ordered(f[n]) ELSE <<>>]

\* Spec: the root needs some of these; LibB needs LibC or nothing.
MainLibs == {LibA, LibB, Libc6}
MainGraphs ==
    {[n \in Names |-> IF n = Exe THEN r ELSE IF n = LibB THEN b ELSE <<>>] :
        r \in SeqsUpTo(MainLibs, MaxDeps), b \in {<<>>, <<LibC>>}}

MainPlaces == {{}, {UserDir}, {"/usr/lib"}, {UserDir, "/usr/lib"}, {LdDir}}
MainLibDirs ==
    {[l \in Names |-> IF l = LibA THEN a ELSE IF l = LibB THEN b
                      ELSE IF l = Libc6 THEN {"/lib64"} ELSE {}] :
        a \in MainPlaces, b \in MainPlaces}

Frame(path) == [path |-> path, phase |-> "entry", dependencies |-> <<>>, idx |-> 1]

InitCommon ==
    /\ exit_status = -1
    /\ failure = "none"
    /\ envShWritten = FALSE
    /\ exeCopied = FALSE
    /\ copyStarted = FALSE
    /\ copiedLibs = {}
    /\ reported = {}
    /\ remaining = {}
    /\ handed = 0
    /\ processed = {}
    /\ stack = <<>>
    /\ reads = <<>>
    /\ raw = NoSet
    /\ filterRuns = 0
    /\ all_dependencies = NoSet
    /\ found = NotCalled
    /\ probes = <<>>

\* a run of main: the state when Args::parse has returned
Init ==
    /\ deps \in MainGraphs
    /\ libDirs \in MainLibDirs
    /\ search \in {None, UserDir}
    /\ targetKind \in {"absent", "dir", "file"}
    /\ libsKind \in (IF targetKind = "dir" THEN {"absent", "dir", "file"} ELSE {"absent"})
    /\ ld_path \in {Unset, <<LdDir>>}
    /\ user_search_path = <<>>
    /\ pc = "create_target"
    /\ InitCommon

(***************************************************************************)
(* create_target_dirs                                                      *)
(***************************************************************************)
Exit(status, why) ==
    /\ pc' = "done"
    /\ exit_status' = status
    /\ failure' = why

\* lines 121-128: the target directory
CreateTargetDir ==
    /\ pc = "create_target"
    /\ \/ /\ targetKind # "absent"
          /\ pc' = "create_libs"
          /\ UNCHANGED <<targetKind, exit_status, failure>>
       \/ /\ targetKind = "absent"
          /\ targetKind' = "dir"
          /\ pc' = "create_libs"
          /\ UNCHANGED <<exit_status, failure>>
       \/ /\ targetKind = "absent"
          /\ Exit(1, "create_target")
          /\ UNCHANGED targetKind
    /\ UNCHANGED <<libsKind, envShWritten, exeCopied, copyStarted, copiedLibs>>
    /\ UNCHANGED <<envVars, resolveVars, copyVars, user_search_path, found, probes>>

\* lines 132-150: target_dir/libs; create_dir_all cannot succeed under a
\* target that is a regular file
CreateLibDir ==
    /\ pc = "create_libs"
    /\ \/ /\ libsKind # "absent"
          /\ pc' = "write_env"
          /\ UNCHANGED <<libsKind, exit_status, failure>>
       \/ /\ libsKind = "absent"
          /\ targetKind = "dir"
          /\ libsKind' = "dir"
          /\ pc' = "write_env"
          /\ UNCHANGED <<exit_status, failure>>
       \/ /\ libsKind = "absent"
          /\ Exit(1, "create_libs")
          /\ UNCHANGED libsKind
    /\ UNCHANGED <<targetKind, envShWritten, exeCopied, copyStarted, copiedLibs>>
    /\ UNCHANGED <<envVars, resolveVars, copyVars, user_search_path, found, probes>>

\* lines 153-161: env.sh
WriteEnvSh ==
    /\ pc = "write_env"
    /\ \/ /\ envShWritten' = TRUE
          /\ pc' = "copy_exe"
          /\ UNCHANGED <<exit_status, failure>>
       \/ /\ Exit(1, "write_env")
          /\ UNCHANGED envShWritten
    /\ UNCHANGED <<targetKind, libsKind, exeCopied, copyStarted, copiedLibs>>
    /\ UNCHANGED <<envVars, resolveVars, copyVars, user_search_path, found, probes>>

(***************************************************************************)
(* main, lines 176-183                                                     *)
(***************************************************************************)
\* lines 178-179: fs::copy(executable_path, target_dir/exe).expect(..)
CopyExe ==
    /\ pc = "copy_exe"
    /\ copyStarted' = TRUE
    /\ \/ /\ exeCopied' = TRUE
          /\ pc' = "unwrap_search"
          /\ UNCHANGED <<exit_status, failure>>
       \/ /\ Exit(101, "copy_exe")
          /\ UNCHANGED exeCopied
    /\ UNCHANGED <<targetKind, libsKind, envShWritten, copiedLibs>>
    /\ UNCHANGED <<envVars, resolveVars, copyVars, user_search_path, found, probes>>

\* lines 181-183: args.search.unwrap() panics on None
UnwrapSearch ==
    /\ pc = "unwrap_search"
    /\ \/ /\ search # None
          /\ user_search_path' = <<search>>
          /\ pc' = "resolve"
          /\ UNCHANGED <<exit_status, failure>>
       \/ /\ search = None
          /\ Exit(101, "unwrap_search")
          /\ UNCHANGED user_search_path
    /\ UNCHANGED <<envVars, fsVars, resolveVars, copyVars, found, probes>>

(***************************************************************************)
(* resolve_dependencies and resolve_dependencies_recursively               *)
(***************************************************************************)
\* lines 82-83: the empty set and the outermost recursive call
ResolveCall ==
    /\ pc = "resolve"
    /\ processed' = {}
    /\ stack' = <<Frame(Exe)>>
    /\ pc' = "recurse"
    /\ UNCHANGED <<exit_status, failure, reads, raw, filterRuns, all_dependencies>>
    /\ UNCHANGED <<envVars, fsVars, copyVars, user_search_path, found, probes>>

Top == stack[Len(stack)]
Pop == SubSeq(stack, 1, Len(stack) - 1)

\* a call returns Ok(processed.clone()): to its caller's loop, or, for the
\* outermost call, to line 83 of resolve_dependencies
ReturnOk ==
    /\ stack' = Pop
    /\ IF Len(stack) = 1
       THEN /\ raw' = processed
            /\ pc' = "filter"
       ELSE UNCHANGED <<raw, pc>>

\* lines 46-48: the path is in the set already
RecAlreadyProcessed ==
    /\ pc = "recurse"
    /\ stack # <<>>
    /\ Top.phase = "entry"
    /\ Top.path \in processed
    /\ ReturnOk
    /\ UNCHANGED <<exit_status, failure, processed, reads, filterRuns, all_dependencies>>
    /\ UNCHANGED <<envVars, fsVars, copyVars, user_search_path, found, probes>>

\* extract_dependencies, lines 36-39: the DT_NEEDED names in file order
extract_dependencies(path) == deps[path]

\* lines 50-51: fs::read and extract_dependencies succeed
RecRead ==
    /\ pc = "recurse"
    /\ stack # <<>>
    /\ Top.phase = "entry"
    /\ Top.path \notin processed
    /\ reads' = Append(reads, Top.path)
    /\ stack' = [stack EXCEPT ![Len(stack)] =
                    [@ EXCEPT !.phase = "loop",
                              !.dependencies = extract_dependencies(Top.path),
                              !.idx = 1]]
    /\ UNCHANGED <<pc, exit_status, failure, processed, raw, filterRuns, all_dependencies>>
    /\ UNCHANGED <<envVars, fsVars, copyVars, user_search_path, found, probes>>

\* line 50: fs::read fails; every caller's `?` hands the error on, so
\* resolve_dependencies returns Err
RecReadFail ==
    /\ pc = "recurse"
    /\ stack # <<>>
    /\ Top.phase = "entry"
    /\ Top.path \notin processed
    /\ reads' = Append(reads, Top.path)
    /\ stack' = <<>>
    /\ pc' = "main_err"
    /\ failure' = "read"
    /\ UNCHANGED <<exit_status, processed, raw, filterRuns, all_dependencies>>
    /\ UNCHANGED <<envVars, fsVars, copyVars, user_search_path, found, probes>>

\* line 37: Elf::parse(..).expect(..) panics on bytes that are not an ELF file
RecParsePanic ==
    /\ pc = "recurse"
    /\ stack # <<>>
    /\ Top.phase = "entry"
    /\ Top.path \notin processed
    /\ reads' = Append(reads, Top.path)
    /\ stack' = <<>>
    /\ Exit(101, "parse")
    /\ UNCHANGED <<processed, raw, filterRuns, all_dependencies>>
    /\ UNCHANGED <<envVars, fsVars, copyVars, user_search_path, found, probes>>

\* RecLoop with the ignore list applied inside the loop: a matching
\* dependency is neither inserted nor explored
RecLoop_FilterInTraversal ==
    /\ pc = "recurse"
    /\ stack # <<>>
    /\ Top.phase = "loop"
    /\ Top.idx <= Len(Top.dependencies)
    /\ LET dep == Top.dependencies[Top.idx]
           next == [stack EXCEPT ![Len(stack)] = [@ EXCEPT !.idx = @ + 1]]
       IN  IF dep \notin processed /\ retain(dep)
           THEN /\ processed' = processed \cup {dep}
                /\ stack' = Append(next, Frame(dep))
           ELSE /\ stack' = next
                /\ UNCHANGED processed
    /\ UNCHANGED <<pc, exit_status, failure, reads, raw, filterRuns, all_dependencies>>
    /\ UNCHANGED <<envVars, fsVars, copyVars, user_search_path, found, probes>>

\* lines 53-59: one iteration of the loop over the dependencies
RecLoop ==
    /\ pc = "recurse"
    /\ stack # <<>>
    /\ Top.phase = "loop"
    /\ Top.idx <= Len(Top.dependencies)
    /\ LET dep == Top.dependencies[Top.idx]
           next == [stack EXCEPT ![Len(stack)] = [@ EXCEPT !.idx = @ + 1]]
       IN  IF dep \notin processed
           THEN /\ processed' = processed \cup {dep}
                /\ stack' = Append(next, Frame(dep))
           ELSE /\ stack' = next
                /\ UNCHANGED processed
    /\ UNCHANGED <<pc, exit_status, failure, reads, raw, filterRuns, all_dependencies>>
    /\ UNCHANGED <<envVars, fsVars, copyVars, user_search_path, found, probes>>

\* line 61: the loop is over
RecReturn ==
    /\ pc = "recurse"
    /\ stack # <<>>
    /\ Top.phase = "loop"
    /\ Top.idx > Len(Top.dependencies)
    /\ ReturnOk
    /\ UNCHANGED <<exit_status, failure, processed, reads, filterRuns, all_dependencies>>
    /\ UNCHANGED <<envVars, fsVars, copyVars, user_search_path, found, probes>>

\* lines 86-97: retain the entries no ignore pattern matches
Filter ==
    /\ pc = "filter"
    /\ all_dependencies' = {dep \in raw : retain(dep)}
    /\ filterRuns' = filterRuns + 1
    /\ pc' = "copy_libraries"
    /\ UNCHANGED <<exit_status, failure, processed, stack, reads, raw>>
    /\ UNCHANGED <<envVars, fsVars, copyVars, user_search_path, found, probes>>

(***************************************************************************)
(* main, lines 184-193, and copy_libraries                                 *)
(***************************************************************************)
\* lines 186-188: the Ok arm calls copy_libraries
CopyLibrariesCall ==
    /\ pc = "copy_libraries"
    /\ remaining' = all_dependencies
    /\ handed' = handed + 1
    /\ pc' = "copy_loop"
    /\ UNCHANGED <<exit_status, failure, reported>>
    /\ UNCHANGED <<envVars, fsVars, resolveVars, user_search_path, found, probes>>

\* CopyLibOk taking each copied entry out of the dependency set
CopyLibOk_Drains ==
    /\ pc = "copy_loop"
    /\ \E lib \in remaining :
          /\ find_library_path(lib, user_search_path) # None
          /\ libsKind = "dir"
          /\ copiedLibs' = copiedLibs \cup {lib}
          /\ remaining' = remaining \ {lib}
          /\ all_dependencies' = all_dependencies \ {lib}
    /\ copyStarted' = TRUE
    /\ UNCHANGED <<pc, exit_status, failure, reported, handed>>
    /\ UNCHANGED <<targetKind, libsKind, envShWritten, exeCopied>>
    /\ UNCHANGED <<processed, stack, reads, raw, filterRuns>>
    /\ UNCHANGED <<envVars, user_search_path, found, probes>>

\* lines 66-71: the library is found and fs::copy succeeds
CopyLibOk ==
    /\ pc = "copy_loop"
    /\ \E lib \in remaining :
          /\ find_library_path(lib, user_search_path) # None
          /\ libsKind = "dir"
          /\ copiedLibs' = copiedLibs \cup {lib}
          /\ remaining' = remaining \ {lib}
    /\ copyStarted' = TRUE
    /\ UNCHANGED <<pc, exit_status, failure, reported, handed>>
    /\ UNCHANGED <<targetKind, libsKind, envShWritten, exeCopied>>
    /\ UNCHANGED <<envVars, resolveVars, user_search_path, found, probes>>

\* CopyLibFail with the result of fs::copy dropped: the loop goes on
CopyLibFail_Ignored ==
    /\ pc = "copy_loop"
    /\ \E lib \in remaining :
          /\ find_library_path(lib, user_search_path) # None
          /\ remaining' = remaining \ {lib}
    /\ copyStarted' = TRUE
    /\ failure' = "copy_lib"
    /\ UNCHANGED <<pc, exit_status, reported, handed>>
    /\ UNCHANGED <<targetKind, libsKind, envShWritten, exeCopied, copiedLibs>>
    /\ UNCHANGED <<envVars, resolveVars, user_search_path, found, probes>>

\* line 71 and line 188: fs::copy fails, `?` returns the error and main's
\* expect panics
CopyLibFail ==
    /\ pc = "copy_loop"
    /\ \E lib \in remaining :
          find_library_path(lib, user_search_path) # None
    /\ copyStarted' = TRUE
    /\ Exit(101, "copy_lib")
    /\ UNCHANGED <<reported, remaining, handed>>
    /\ UNCHANGED <<targetKind, libsKind, envShWritten, exeCopied, copiedLibs>>
    /\ UNCHANGED <<envVars, resolveVars, user_search_path, found, probes>>

\* CopyLibNotFound with the miss returned as an error after the report
CopyLibNotFound_Fatal ==
    /\ pc = "copy_loop"
    /\ \E lib \in remaining :
          /\ find_library_path(lib, user_search_path) = None
          /\ reported' = reported \cup {lib}
    /\ Exit(101, "not_found")
    /\ UNCHANGED <<remaining, handed>>
    /\ UNCHANGED <<envVars, fsVars, resolveVars, user_search_path, found, probes>>

\* lines 73-75: the library is in no directory; print and go on
CopyLibNotFound ==
    /\ pc = "copy_loop"
    /\ \E lib \in remaining :
          /\ find_library_path(lib, user_search_path) = None
          /\ reported' = reported \cup {lib}
          /\ remaining' = remaining \ {lib}
    /\ UNCHANGED <<pc, exit_status, failure, handed>>
    /\ UNCHANGED <<envVars, fsVars, resolveVars, user_search_path, found, probes>>

\* line 78 and the end of main: Ok(()), exit status 0
CopyLibrariesReturn ==
    /\ pc = "copy_loop"
    /\ remaining = {}
    /\ Exit(0, "none")
    /\ UNCHANGED <<reported, remaining, handed>>
    /\ UNCHANGED <<envVars, fsVars, resolveVars, user_search_path, found, probes>>

\* lines 190-192: the Err arm prints the error; main then returns
MainErr ==
    /\ pc = "main_err"
    /\ pc' = "done"
    /\ exit_status' = 0
    /\ UNCHANGED failure
    /\ UNCHANGED <<envVars, fsVars, resolveVars, copyVars, user_search_path, found, probes>>

(***************************************************************************)
(* The specifications.                                                     *)
(***************************************************************************)
Next ==
    \/ CreateTargetDir
    \/ CreateLibDir
    \/ WriteEnvSh
    \/ CopyExe
    \/ UnwrapSearch
    \/ ResolveCall
    \/ RecAlreadyProcessed
    \/ RecRead
    \/ RecReadFail
    \/ RecParsePanic
    \/ RecLoop
    \/ RecReturn
    \/ Filter
    \/ CopyLibrariesCall
    \/ CopyLibOk
    \/ CopyLibFail
    \/ CopyLibNotFound
    \/ CopyLibrariesReturn
    \/ MainErr

Spec == Init /\ [][Next]_vars

\* resolve_dependencies alone, entered as main enters it
InitResolve ==
    /\ \E r \in SeqsUpTo(Names, MaxDeps), f \in [GraphLibs -> SUBSET GraphLibs] :
          deps = ResolveGraph(r, f)
    /\ InitCommon
    /\ pc = "resolve"
    /\ search = UserDir
    /\ targetKind = "dir"
    /\ libsKind = "dir"
    /\ libDirs = [l \in Names |-> {}]
    /\ ld_path = Unset
    /\ user_search_path = <<UserDir>>

NextResolve ==
    \/ ResolveCall
    \/ RecAlreadyProcessed
    \/ RecRead
    \/ RecReadFail
    \/ RecParsePanic
    \/ RecLoop
    \/ RecReturn
    \/ Filter

SpecResolve == InitResolve /\ [][NextResolve]_vars

\* find_library_path alone: the name looked up is LibA
InitFind ==
    /\ InitCommon
    /\ pc = "find"
    /\ search = None
    /\ targetKind = "dir"
    /\ libsKind = "dir"
    /\ deps = [n \in Names |-> <<>>]
    /\ libDirs \in {[l \in Names |-> IF l = LibA THEN d ELSE {}] : d \in SUBSET Dirs}
    /\ ld_path \in {Unset} \cup (SeqsUpTo({LdDir, "/usr/lib", Cwd}, MaxLdPaths) \ {<<>>})
    /\ user_search_path \in SeqsUpTo({UserDir, "/usr/lib", LdDir}, MaxUserPaths)

FindLibrary ==
    /\ pc = "find"
    /\ found' = find_library_path(LibA, user_search_path)
    /\ probes' = probed(probe_order(user_search_path, ld_path), libDirs[LibA])
    /\ pc' = "found"
    /\ UNCHANGED <<exit_status, failure>>
    /\ UNCHANGED <<envVars, fsVars, resolveVars, copyVars, user_search_path>>

NextFind == FindLibrary

SpecFind == InitFind /\ [][NextFind]_vars

(***************************************************************************)
(* Properties.                                                             *)
(***************************************************************************)
\* the libraries reachable from the root through declared dependencies
RECURSIVE Closure(_)
Closure(S) ==
    LET step == S \cup UNION {Range(deps[n]) : n \in S}
    IN  IF step = S THEN S ELSE Closure(step)

Reachable == Closure(Range(deps[Exe]))

\* C1: the outermost call of resolve_dependencies_recursively returns exactly
\* the libraries transitively reachable from the root; for a root needing
\* {A, B} with A -> {C}, B -> {}, C -> {A} it returns {A, B, C}.
C1_ClosureIsReachableSet ==
    raw # NoSet =>
        /\ raw = Reachable
        /\ (/\ Range(deps[Exe]) = {LibA, LibB}
            /\ deps[LibA] = <<LibC>>
            /\ deps[LibB] = <<>>
            /\ deps[LibC] = <<LibA>>) => raw = {LibA, LibB, LibC}

\* two libraries on a cycle A -> B -> A (A = B: a library listing itself)
\* that the root reaches
OnReachableCycle(a, b) ==
    /\ a \in Reachable \cup {Exe}
    /\ b \in Range(deps[a])
    /\ a \in Range(deps[b])

\* C2: on a graph with a cycle A -> B -> A the resolution terminates (the
\* traversal is over: the outermost call has returned) with both A and B in
\* the returned set.
C2_CycleMembersReturned ==
    raw # NoSet =>
        \A a \in Names, b \in Names :
            OnReachableCycle(a, b) => (a \in raw /\ b \in raw)

\* the first directory of the user-supplied vector that holds the file
FirstUserHit == first_hit(user_search_path, 1, libDirs[LibA])

\* C3: when a file of the name exists in a user-supplied directory and in a
\* built-in system directory, find_library_path returns the user-supplied one.
C3_UserPathBeforeSystem ==
    (/\ found # NotCalled
     /\ FirstUserHit # None
     /\ Range(system_paths) \cap libDirs[LibA] # {}) => found = FirstUserHit

\* C4: a run without the search option is not an error: once the directories
\* are made and the executable is copied it goes on into dependency resolution.
C4_SearchIsOptional ==
    search = None =>
        /\ failure # "unwrap_search"
        /\ (pc = "done" /\ exeCopied) => reads # <<>>

Resolvable(lib) == find_library_path(lib, user_search_path) # None

\* C5: a library of the final set that is in no search tier is reported and
\* nothing else happens for it: the step that reports it copies nothing, keeps
\* the process running and stays in the loop; a run in which no copy fails ends
\* with status 0, every resolvable library copied and every other one reported.
C5_NotFoundIsNotAnError ==
    /\ [](reported \cap copiedLibs = {} /\ \A l \in reported : ~Resolvable(l))
    /\ []((pc = "done" /\ handed = 1 /\ failure = "none") =>
            /\ exit_status = 0
            /\ copiedLibs = {l \in all_dependencies : Resolvable(l)}
            /\ reported = {l \in all_dependencies : ~Resolvable(l)})
    /\ [][reported' # reported =>
            /\ pc' = "copy_loop"
            /\ exit_status' = -1
            /\ failure' = "none"
            /\ copiedLibs' = copiedLibs]_vars

C5_Witness ==
    /\ pc = "done"
    /\ exit_status = 0
    /\ reported # {}
    /\ copiedLibs # {}

\* the part of a name after its last '/'
RECURSIVE BaseName(_)
BaseName(t) ==
    IF \E k \in 1..Len(t) : t[k] = "/"
    THEN BaseName(Tail(t))
    ELSE t

\* t is target, or target followed by a version suffix ".<something>"
IsVersionOf(target, t) ==
    /\ Len(t) >= Len(target)
    /\ SubSeq(t, 1, Len(target)) = target
    /\ Len(t) > Len(target) => t[Len(target) + 1] = "."

IgnoredLibraries ==
    { <<"l","d","-","l","i","n","u","x","-","x","8","6","-","6","4",".","s","o">>,
      <<"l","i","n","u","x","-","v","d","s","o",".","s","o">>,
      <<"l","i","b","c",".","s","o">> }

NamedForIgnoring(dep) ==
    \E target \in IgnoredLibraries : IsVersionOf(target, BaseName(Text(dep)))

\* C6: resolve_dependencies returns the raw closure minus exactly the entries
\* whose base filename is, up to a version suffix, the dynamic loader, the
\* virtual DSO or the C runtime library.
C6_FilterRemovesExactlyTheIgnored ==
    all_dependencies # NoSet =>
        all_dependencies = {dep \in raw : ~NamedForIgnoring(dep)}

C8_DirsExistBeforeCopy ==
    /\ copyStarted => (targetKind = "dir" /\ libsKind = "dir")
    /\ failure \in {"create_target", "create_libs"} =>
            (exit_status = 1 /\ ~copyStarted /\ ~exeCopied /\ copiedLibs = {})

\* C9: a failed copy ends the run at once with a non-zero status: nothing is
\* copied or reported after it, and a failed copy of the executable leaves
\* resolution and library copying undone.
C9_CopyFailureIsFatal ==
    /\ [](failure \in {"copy_exe", "copy_lib"} =>
            (pc = "done" /\ exit_status \notin {-1, 0}))
    /\ [](failure = "copy_exe" =>
            (~exeCopied /\ reads = <<>> /\ handed = 0 /\ copiedLibs = {}))
    /\ [][(failure \in {"copy_exe", "copy_lib"}) =>
            (UNCHANGED <<fsVars, copyVars, resolveVars>>)]_vars

C9_Witness ==
    /\ failure = "copy_lib"
    /\ copiedLibs # {}
    /\ remaining # {}

\* C10: when the root executable cannot be read or parsed, no dependency set
\* is produced, no library is copied and the process does not exit with
\* status 0.
C10_InputErrorIsFatal ==
    (pc = "done" /\ failure \in {"read", "parse"}) =>
        /\ all_dependencies = NoSet
        /\ handed = 0
        /\ copiedLibs = {}
        /\ exit_status # 0

\* no file the root reaches (nor the root) is on a dependency cycle
Acyclic == \A n \in Reachable \cup {Exe} : n \notin Closure(Range(deps[n]))

\* how often fs::read was given the path
TimesRead(path) == Cardinality({k \in 1..Len(reads) : reads[k] = path})

\* C11: on an acyclic graph, when the traversal is over the metadata of every
\* library reachable from the root has been read exactly once.
C11_EachReachableReadOnce ==
    (raw # NoSet /\ Acyclic) => \A lib \in Reachable : TimesRead(lib) = 1

\* C12: one call of find_library_path probes no directory twice.
C12_NoDirectoryProbedTwice ==
    found # NotCalled =>
        \A i \in 1..Len(probes), j \in 1..Len(probes) :
            i # j => probes[i] # probes[j]

\* C13: every path whose file is read, the root included, is in the visited
\* set when it is read (a read leaves the set as it is, so the path is in the
\* set right after the read exactly when it was before), and no file is read
\* a second time.
C13_VisitedBeforeRead ==
    /\ \A k \in 1..Len(reads) : reads[k] \in processed
    /\ \A path \in Names : TimesRead(path) <= 1

\* C14: the dependency set is empty when resolve_dependencies starts, no step
\* of the traversal removes an entry, nothing changes the set once the ignore
\* filter has run, and copy_libraries is called at most once in a run, with
\* the filtered set, and exactly once in every run whose resolution succeeds.
C14_DependencySetLifecycle ==
    /\ [][pc = "resolve" => (processed' = {} /\ stack' = <<Frame(Exe)>>)]_vars
    /\ [][pc = "recurse" => processed \subseteq processed']_vars
    /\ [][filterRuns >= 1 => UNCHANGED <<all_dependencies, raw, processed>>]_vars
    /\ [][handed' # handed =>
            (/\ handed' = handed + 1
             /\ filterRuns = 1
             /\ remaining' = all_dependencies)]_vars
    /\ [](handed <= 1)
    /\ []((pc = "done" /\ all_dependencies # NoSet) => handed = 1)

C14_Witness ==
    /\ pc = "done"
    /\ exit_status = 0
    /\ handed = 1
    /\ copiedLibs # {}
    /\ all_dependencies # raw

====
